---- MODULE Spec2Model ----
(***************************************************************************)
(* ChatGPT Text Cleaner (src/src/App.jsx).                                 *)
(*                                                                         *)
(* A text is a sequence of UTF-16 code units, each one a natural number    *)
(* (its code point).  The cleaning engine cleanText is an operator built   *)
(* from one operator per String.replace / trim / toLowerCase call of the   *)
(* source, each computed as the JavaScript engine computes it (leftmost,   *)
(* greedy, non-overlapping matches of a global regular expression).        *)
(***************************************************************************)
EXTENDS Integers, Sequences, FiniteSets, TLC

VARIABLES
    inputText,          \* useState(''), line 6: the text handed to cleanText
    cleaningOptions,    \* useState(load...), line 58: the option record
    cleanupResult,      \* useState(null), line 7: result of cleanText, or Null
    lastProcessedText,  \* useState(''), line 219
    clipboard,          \* navigator.clipboard contents
    storage,            \* localStorage['chatgpt-cleaner-settings'], tagged by kind
    recleaned,          \* cleanText applied to cleanupResult.cleanedText
    pc,                 \* position of the run: "input", "cleaned", "recleaned", "ui"
    isMobile,           \* useState(false), line 10
    mobileDevice,       \* what checkMobile() of lines 228-232 returns now
    reads,              \* readText() calls of readClipboard not yet settled,
                        \* each one the closure of the call that awaits it
    writes,             \* writeText() calls of handleCopy not yet settled
    fromApp,            \* TRUE iff the clipboard holds a text handleCopy wrote
    autoRead,           \* TRUE iff the last step called readText in readClipboard
    failure             \* the call that failed in the last step: "none", "load",
                        \* "save", "read", "write" or "paste"

\* The part of the state that only the page's events read or write
page == << isMobile, mobileDevice, reads, writes, fromApp, autoRead, failure >>

vars == << inputText, cleaningOptions, cleanupResult, lastProcessedText,
           clipboard, storage, recleaned, pc, page >>

\* The page's part of the state after construction (line 10), with no
\* clipboard call in flight
InitPageState ==
    /\ isMobile = FALSE
    /\ mobileDevice = FALSE
    /\ reads = {}
    /\ writes = {}
    /\ fromApp = FALSE
    /\ autoRead = FALSE
    /\ failure = "none"

\* null, the value of cleanupResult before a result exists (line 7)
Null == [null |-> TRUE]

(***************************************************************************)
(* Code units used by the source's regular expressions.                    *)
(***************************************************************************)
TAB == 9
LF == 10
VT == 11
FF == 12
CR == 13
SPACE == 32
DOT == 46

\* [ \t\f\v], lines 179 and 208
HorizontalSpace == {SPACE, TAB, FF, VT}

\* \s of an ECMAScript regular expression (WhiteSpace + LineTerminator),
\* which is also the set String.prototype.trim strips: lines 177, 179, 198
JsWhiteSpace ==
    {TAB, LF, VT, FF, CR, SPACE, 160, 5760, 8232, 8233, 8239, 8287, 12288, 65279}
        \cup (8192..8202)

\* \d, line 157
IsDigit(c) == c \in 48..57

\* \w, lines 162, 167, 198: [A-Za-z0-9_]
IsWordChar(c) == c \in (65..90) \cup (97..122) \cup (48..57) \cup {95}

\* Ѐ-ӿ, lines 162 and 167
IsCyrillic(c) == c \in 1024..1279

\* [^\w\sЀ-ӿ], lines 162 and 167: the characters the filter deletes
IsPunctuationOrSpecial(c) ==
    ~IsWordChar(c) /\ c \notin JsWhiteSpace /\ ~IsCyrillic(c)

\* [^\x00-\x7F], line 172
IsNonAscii(c) == c > 127

(***************************************************************************)
(* The catalog: the keys of problematicChars in insertion order, which is  *)
(* the order Object.entries yields (lines 63-106).                         *)
(***************************************************************************)
problematicChars ==
    << 8239,   \* U+202F Narrow No-Break Space
       8203,   \* U+200B Zero-Width Space
       8204,   \* U+200C Zero-Width Non-Joiner
       8205,   \* U+200D Zero-Width Joiner
       65279,  \* U+FEFF Zero-Width No-Break Space (BOM)
       8195,   \* U+2003 Em Space
       8194,   \* U+2002 En Space
       8201,   \* U+2009 Thin Space
       8202,   \* U+200A Hair Space
       8288,   \* U+2060 Word Joiner
       160,    \* U+00A0 Non-Breaking Space
       6158,   \* U+180E Mongolian Vowel Separator
       8232,   \* U+2028 Line Separator
       8233,   \* U+2029 Paragraph Separator
       1564,   \* U+061C Arabic Letter Mark
       8206,   \* U+200E Left-to-Right Mark
       8207,   \* U+200F Right-to-Left Mark
       8234,   \* U+202A Left-to-Right Embedding
       8235,   \* U+202B Right-to-Left Embedding
       8236,   \* U+202C Pop Directional Formatting
       8237,   \* U+202D Left-to-Right Override
       8238,   \* U+202E Right-to-Left Override
       8294,   \* U+2066 Left-to-Right Isolate
       8295,   \* U+2067 Right-to-Left Isolate
       8296,   \* U+2068 First Strong Isolate
       8297,   \* U+2069 Pop Directional Isolate
       8212,   \* U+2014 Em Dash
       8211,   \* U+2013 En Dash
       8216,   \* U+2018 Left Single Quotation Mark
       8217,   \* U+2019 Right Single Quotation Mark
       8220,   \* U+201C Left Double Quotation Mark
       8221,   \* U+201D Right Double Quotation Mark
       8230,   \* U+2026 Horizontal Ellipsis
       171,    \* U+00AB Left-Pointing Double Angle Quotation Mark
       187,    \* U+00BB Right-Pointing Double Angle Quotation Mark
       8222,   \* U+201E Double Low-9 Quotation Mark
       8242,   \* U+2032 Prime
       8243,   \* U+2033 Double Prime
       8245,   \* U+2035 Reversed Prime
       8246 >> \* U+2036 Reversed Double Prime

\* The replacement string of one catalog key: the if / else-if chain of
\* lines 128-149.  45 is '-', 39 is the ASCII single quote, 34 the double quote.
Replacement(char) ==
    IF char = 8212 \/ char = 8211 THEN << 45 >>
    ELSE IF char = 8216 \/ char = 8217 THEN << 39 >>
    ELSE IF char = 8220 \/ char = 8221 THEN << 34 >>
    ELSE IF char = 171 \/ char = 187 \/ char = 8222 THEN << 34 >>
    ELSE IF char = 8242 \/ char = 8245 THEN << 39 >>
    ELSE IF char = 8243 \/ char = 8246 THEN << 34 >>
    ELSE IF char = 8230 THEN << DOT, DOT, DOT >>
    ELSE IF char = 8239 \/ char = 160 \/ char = 8195 \/ char = 8194
            \/ char = 8201 \/ char = 8202 THEN << SPACE >>
    ELSE << >>

(***************************************************************************)
(* String primitives.                                                      *)
(***************************************************************************)
\* Mutant of CountMatches: the regular expression without its g flag, whose
\* match array holds the first match only
CountMatches_FirstOnly(text, char) ==
    IF \E i \in 1..Len(text) : text[i] = char THEN 1 ELSE 0

\* text.match(new RegExp(char, 'g')): the number of matches (0 for null),
\* lines 115-118
RECURSIVE CountMatches(_, _)
CountMatches(text, char) ==
    IF text = << >> THEN 0
    ELSE (IF Head(text) = char THEN 1 ELSE 0) + CountMatches(Tail(text), char)

\* Mutant of ReplaceChar: the regular expression without its g flag, which
\* replaces the first match only
ReplaceChar_FirstOnly(s, char, rep) ==
    IF \E i \in 1..Len(s) : s[i] = char
    THEN LET i == CHOOSE i \in 1..Len(s) :
                      s[i] = char /\ \A j \in 1..(i - 1) : s[j] # char
         IN  SubSeq(s, 1, i - 1) \o rep \o SubSeq(s, i + 1, Len(s))
    ELSE s

\* s.replace(new RegExp(char, 'g'), rep), lines 129-147
RECURSIVE ReplaceChar(_, _, _)
ReplaceChar(s, char, rep) ==
    IF s = << >> THEN << >>
    ELSE (IF Head(s) = char THEN rep ELSE << Head(s) >>)
             \o ReplaceChar(Tail(s), char, rep)

\* s.replace(/\d/g, ''), line 157
RemoveDigits(s) == SelectSeq(s, LAMBDA c : ~IsDigit(c))

\* s.replace(/[^\w\sЀ-ӿ]/g, ''), lines 162 and 167
RemovePunctuation(s) == SelectSeq(s, LAMBDA c : ~IsPunctuationOrSpecial(c))

\* s.replace(/[^\x00-\x7F]/g, ''), line 172
RemoveNonAscii(s) == SelectSeq(s, LAMBDA c : ~IsNonAscii(c))

\* s.replace(/\s/g, ''), line 177
RemoveAllWhiteSpace(s) == SelectSeq(s, LAMBDA c : c \notin JsWhiteSpace)

\* s.replace(/[ \t\f\v]+/g, ' '), lines 179 and 208: each maximal run of
\* horizontal space becomes one space
RECURSIVE SkipHorizontal(_)
SkipHorizontal(s) ==
    IF s # << >> /\ Head(s) \in HorizontalSpace THEN SkipHorizontal(Tail(s)) ELSE s

RECURSIVE CollapseHorizontal(_)
CollapseHorizontal(s) ==
    IF s = << >> THEN << >>
    ELSE IF Head(s) \in HorizontalSpace
         THEN << SPACE >> \o CollapseHorizontal(SkipHorizontal(s))
         ELSE << Head(s) >> \o CollapseHorizontal(Tail(s))

\* String.prototype.trim, lines 179, 208, 247, 272, 302: strips white space
\* and line terminators from both ends
RECURSIVE TrimStart(_)
TrimStart(s) ==
    IF s # << >> /\ Head(s) \in JsWhiteSpace THEN TrimStart(Tail(s)) ELSE s

RECURSIVE TrimEnd(_)
TrimEnd(s) ==
    IF s # << >> /\ s[Len(s)] \in JsWhiteSpace
    THEN TrimEnd(SubSeq(s, 1, Len(s) - 1)) ELSE s

\* Mutant of Trim: trimStart in place of trim
Trim_StartOnly(s) == TrimStart(s)

Trim(s) == TrimEnd(TrimStart(s))

\* s.replace(/[ \t\f\v]+/g, ' ').trim(), lines 179 and 208
RemoveExtraSpaces(s) == Trim(CollapseHorizontal(s))

\* s.replace(/\r?\n/g, ' '), line 184
RECURSIVE RemoveLineBreaks(_)
RemoveLineBreaks(s) ==
    IF s = << >> THEN << >>
    ELSE IF Head(s) = CR /\ Len(s) >= 2 /\ s[2] = LF
         THEN << SPACE >> \o RemoveLineBreaks(SubSeq(s, 3, Len(s)))
    ELSE IF Head(s) = LF
         THEN << SPACE >> \o RemoveLineBreaks(Tail(s))
    ELSE << Head(s) >> \o RemoveLineBreaks(Tail(s))

\* The number of line feeds s starts with
RECURSIVE LeadingLF(_)
LeadingLF(s) ==
    IF s # << >> /\ Head(s) = LF THEN 1 + LeadingLF(Tail(s)) ELSE 0

\* s.replace(/\r?\n{2,}/g, '\n\n'), line 186: a match is an optional carriage
\* return followed by two or more line feeds (the quantifier binds \n alone)
RECURSIVE NormalizeLineBreaks(_)
NormalizeLineBreaks(s) ==
    IF s = << >> THEN << >>
    ELSE IF Head(s) = CR /\ LeadingLF(Tail(s)) >= 2
         THEN << LF, LF >>
                 \o NormalizeLineBreaks(SubSeq(s, 2 + LeadingLF(Tail(s)), Len(s)))
    ELSE IF LeadingLF(s) >= 2
         THEN << LF, LF >>
                 \o NormalizeLineBreaks(SubSeq(s, 1 + LeadingLF(s), Len(s)))
    ELSE << Head(s) >> \o NormalizeLineBreaks(Tail(s))

\* toLowerCase / toUpperCase of one code unit, for the Basic Latin and the
\* Cyrillic letters (every other code unit the inputs are drawn from has no
\* case), lines 192, 195, 198
LowerChar(c) ==
    IF c \in 65..90 THEN c + 32
    ELSE IF c \in 1040..1071 THEN c + 32
    ELSE IF c \in 1024..1039 THEN c + 80
    ELSE c

UpperChar(c) ==
    IF c \in 97..122 THEN c - 32
    ELSE IF c \in 1072..1103 THEN c - 32
    ELSE IF c \in 1104..1119 THEN c - 80
    ELSE c

ToLowerCase(s) == [i \in 1..Len(s) |-> LowerChar(s[i])]

ToUpperCase(s) == [i \in 1..Len(s) |-> UpperChar(s[i])]

\* The number of white-space characters s starts with
RECURSIVE LeadingWhiteSpace(_)
LeadingWhiteSpace(s) ==
    IF s # << >> /\ Head(s) \in JsWhiteSpace
    THEN 1 + LeadingWhiteSpace(Tail(s)) ELSE 0

\* The length of the match of /\.\s+\w/ at the head of s, 0 when there is none
DotSpaceWordMatch(s) ==
    IF s # << >> /\ Head(s) = DOT
    THEN LET n == LeadingWhiteSpace(Tail(s))
         IN  IF n >= 1 /\ Len(s) >= n + 2 /\ IsWordChar(s[n + 2])
             THEN n + 2 ELSE 0
    ELSE 0

\* s.replace(/(^\w|\.\s+\w)/g, m => m.toUpperCase()), line 198; atStart says
\* that s begins at index 0 of the string, where ^ matches
RECURSIVE CapitalizeMatches(_, _)
CapitalizeMatches(s, atStart) ==
    IF s = << >> THEN << >>
    ELSE IF atStart /\ IsWordChar(Head(s))
         THEN << UpperChar(Head(s)) >> \o CapitalizeMatches(Tail(s), FALSE)
    ELSE IF DotSpaceWordMatch(s) > 0
         THEN LET n == DotSpaceWordMatch(s)
              IN  ToUpperCase(SubSeq(s, 1, n))
                      \o CapitalizeMatches(SubSeq(s, n + 1, Len(s)), FALSE)
    ELSE << Head(s) >> \o CapitalizeMatches(Tail(s), FALSE)

SentenceCase(s) == CapitalizeMatches(ToLowerCase(s), TRUE)

(***************************************************************************)
(* The option record.  A field a record does not hold reads as undefined,  *)
(* which is falsy in a condition and matches no case of the switch.        *)
(***************************************************************************)
\* defaultCleaningOptions, lines 36-55
defaultCleaningOptions ==
    [ textCase            |-> "original",
      removeExtraSpaces   |-> TRUE,
      removeAllSpaces     |-> FALSE,
      removeLineBreaks    |-> FALSE,
      normalizeLineBreaks |-> FALSE,
      removeNumbers       |-> FALSE,
      removePunctuation   |-> FALSE,
      removeSpecialChars  |-> FALSE,
      removeNonAscii      |-> FALSE ]

\* if (options.<field>): true exactly when the field is present and true
Flag(options, field) == field \in DOMAIN options /\ options[field] = TRUE

\* options.textCase as the switch of line 190 reads it
TextCaseOf(options) ==
    IF "textCase" \in DOMAIN options THEN options["textCase"] ELSE "undefined"

(***************************************************************************)
(* cleanText, lines 108-216.                                               *)
(***************************************************************************)
\* The forEach of lines 114-151 from entry k on.  acc carries cleanedText,
\* removedChars and totalRemoved; the count is taken on the original text.
RECURSIVE CatalogPass(_, _, _)
CatalogPass(text, k, acc) ==
    IF k > Len(problematicChars) THEN acc
    ELSE LET char  == problematicChars[k]
             count == CountMatches(text, char)
         IN  IF count > 0
             THEN CatalogPass(text, k + 1,
                      [ cleanedText  |-> ReplaceChar(acc.cleanedText, char,
                                                     Replacement(char)),
                        removedChars |-> Append(acc.removedChars,
                                                [char |-> char, count |-> count]),
                        totalRemoved |-> acc.totalRemoved + count ])
             ELSE CatalogPass(text, k + 1, acc)

\* Lines 155-173: digits, punctuation, special characters, non-ASCII
AdditionalCleaning(s, options) ==
    LET a == IF Flag(options, "removeNumbers") THEN RemoveDigits(s) ELSE s
        b == IF Flag(options, "removePunctuation") THEN RemovePunctuation(a) ELSE a
        c == IF Flag(options, "removeSpecialChars") THEN RemovePunctuation(b) ELSE b
    IN  IF Flag(options, "removeNonAscii") THEN RemoveNonAscii(c) ELSE c

\* Mutant of HandleSpaces: the two branches in the other order, so that
\* removeExtraSpaces wins over removeAllSpaces
HandleSpaces_ExtraFirst(s, options) ==
    IF Flag(options, "removeExtraSpaces") THEN RemoveExtraSpaces(s)
    ELSE IF Flag(options, "removeAllSpaces") THEN RemoveAllWhiteSpace(s)
    ELSE s

\* Lines 175-180
HandleSpaces(s, options) ==
    IF Flag(options, "removeAllSpaces") THEN RemoveAllWhiteSpace(s)
    ELSE IF Flag(options, "removeExtraSpaces") THEN RemoveExtraSpaces(s)
    ELSE s

\* Mutant of HandleLineBreaks: the two branches in the other order, so that
\* normalizeLineBreaks wins over removeLineBreaks
HandleLineBreaks_NormalizeFirst(s, options) ==
    IF Flag(options, "normalizeLineBreaks") THEN NormalizeLineBreaks(s)
    ELSE IF Flag(options, "removeLineBreaks") THEN RemoveLineBreaks(s)
    ELSE s

\* Lines 182-187
HandleLineBreaks(s, options) ==
    IF Flag(options, "removeLineBreaks") THEN RemoveLineBreaks(s)
    ELSE IF Flag(options, "normalizeLineBreaks") THEN NormalizeLineBreaks(s)
    ELSE s

\* Lines 189-204
ApplyTextCase(s, options) ==
    CASE TextCaseOf(options) = "lowercase" -> ToLowerCase(s)
      [] TextCaseOf(options) = "uppercase" -> ToUpperCase(s)
      [] TextCaseOf(options) = "sentence"  -> SentenceCase(s)
      [] OTHER -> s

\* Mutant of FinalCleanup: no final pass
FinalCleanup_Skipped(s, options) == s

\* Lines 206-209
FinalCleanup(s, options) ==
    IF ~Flag(options, "removeAllSpaces") /\ Flag(options, "removeExtraSpaces")
    THEN RemoveExtraSpaces(s) ELSE s

cleanText(text, options) ==
    LET pass == CatalogPass(text, 1,
                    [cleanedText |-> text, removedChars |-> << >>, totalRemoved |-> 0])
        s    == FinalCleanup(
                    ApplyTextCase(
                        HandleLineBreaks(
                            HandleSpaces(
                                AdditionalCleaning(pass.cleanedText, options),
                                options),
                            options),
                        options),
                    options)
    IN  [ cleanedText  |-> s,
          removedChars |-> SelectSeq(pass.removedChars, LAMBDA item : item.count > 0),
          totalRemoved |-> pass.totalRemoved ]

(***************************************************************************)
(* Runs of the engine: a text and an option record are given, cleanText is *)
(* applied to them, and then once more to the text it returned.            *)
(***************************************************************************)
\* Every text of at most n code units over the given alphabet
Texts(alphabet, n) == UNION { [1..k -> alphabet] : k \in 0..n }

TextCases == {"original", "lowercase", "uppercase", "sentence"}

\* Every complete option record
AllOptions ==
    [ textCase            : TextCases,
      removeExtraSpaces   : BOOLEAN,
      removeAllSpaces     : BOOLEAN,
      removeLineBreaks    : BOOLEAN,
      normalizeLineBreaks : BOOLEAN,
      removeNumbers       : BOOLEAN,
      removePunctuation   : BOOLEAN,
      removeSpecialChars  : BOOLEAN,
      removeNonAscii      : BOOLEAN ]

InitRun(texts, optionRecords) ==
    /\ inputText \in texts
    /\ cleaningOptions \in optionRecords
    /\ cleanupResult = Null
    /\ recleaned = Null
    /\ lastProcessedText = << >>
    /\ clipboard = << >>
    /\ storage = [kind |-> "absent"]
    /\ pc = "input"
    /\ InitPageState

\* const result = cleanText(inputText), line 303
Clean ==
    /\ pc = "input"
    /\ cleanupResult' = cleanText(inputText, cleaningOptions)
    /\ pc' = "cleaned"
    /\ UNCHANGED << inputText, cleaningOptions, lastProcessedText, clipboard,
                    storage, recleaned, page >>

\* cleanText on the text the first call returned, with the same options
CleanAgain ==
    /\ pc = "cleaned"
    /\ recleaned' = cleanText(cleanupResult.cleanedText, cleaningOptions)
    /\ pc' = "recleaned"
    /\ UNCHANGED << inputText, cleaningOptions, cleanupResult, lastProcessedText,
                    clipboard, storage, page >>

(***************************************************************************)
(* The specifications of the engine runs, one per family of inputs.        *)
(***************************************************************************)
\* Texts with catalog code points, under every option record
MaxLenEngine == 2

EngineChars == {97, SPACE, 8212, 160}

InitEngine == InitRun(Texts(EngineChars, MaxLenEngine), AllOptions)

NextEngine == Clean

SpecEngine == InitEngine /\ [][NextEngine]_vars

\* Texts of letters, spaces and line feeds, under every option record that
\* sets removeAllSpaces
MaxLenSpaces == 3

SpacesChars == {97, SPACE, LF}

InitSpaces ==
    InitRun(Texts(SpacesChars, MaxLenSpaces),
            { o \in AllOptions : o.removeAllSpaces })

NextSpaces == Clean

SpecSpaces == InitSpaces /\ [][NextSpaces]_vars

\* Texts without catalog code points, under the default options
MaxLenDefault == 4

DefaultChars == {97, SPACE, TAB, LF, CR, 12288}

InitDefault == InitRun(Texts(DefaultChars, MaxLenDefault), {defaultCleaningOptions})

NextDefault == Clean

SpecDefault == InitDefault /\ [][NextDefault]_vars

\* Texts over the whole catalog, with every option toggle off
MaxLenCatalog == 2

AllOff == [defaultCleaningOptions EXCEPT !.removeExtraSpaces = FALSE]

CatalogChars == { problematicChars[k] : k \in 1..Len(problematicChars) }

InitCatalog ==
    InitRun(Texts(CatalogChars \cup {97, SPACE, DOT}, MaxLenCatalog), {AllOff})

NextCatalog == Clean

SpecCatalog == InitCatalog /\ [][NextCatalog]_vars

\* Texts of line feeds, carriage returns, spaces and letters, under every
\* setting of the case, space and line-break options; cleaned twice
MaxLenLines == 4

LinesChars == {97, SPACE, LF, CR}

LinesOptions ==
    { o \in AllOptions :
        ~o.removeNumbers /\ ~o.removePunctuation /\ ~o.removeSpecialChars
            /\ ~o.removeNonAscii }

InitLines == InitRun(Texts(LinesChars, MaxLenLines), LinesOptions)

NextLines == Clean \/ CleanAgain

SpecLines == InitLines /\ [][NextLines]_vars

\* Latin and Cyrillic texts with periods, spaces and quotes, under sentence
\* case with the other options at their defaults or all off
MaxLenSentence == 5

SentenceChars == {97, 66, 1087, DOT, SPACE}

SentenceOptions ==
    { [defaultCleaningOptions EXCEPT !.textCase = "sentence"],
      [AllOff EXCEPT !.textCase = "sentence"] }

InitSentence == InitRun(Texts(SentenceChars, MaxLenSentence), SentenceOptions)

NextSentence == Clean

SpecSentence == InitSentence /\ [][NextSentence]_vars

\* Option records that omit fields, as stored by the settings store and
\* loaded at start-up
OptionFields == DOMAIN defaultCleaningOptions

Omit(options, fields) == [ f \in (DOMAIN options) \ fields |-> options[f] ]

PartialBases ==
    { defaultCleaningOptions,
      [defaultCleaningOptions EXCEPT !.textCase = "uppercase",
                                     !.removeExtraSpaces = FALSE,
                                     !.removeLineBreaks = TRUE] }

PartialOptions == { Omit(o, fields) : o \in PartialBases, fields \in SUBSET OptionFields }

\* Mutant of loadFromLocalStorage: no try/catch, the exception of a missing
\* localStorage or of JSON.parse leaves the caller without an option record
loadFromLocalStorage_NoCatch(store, defaultValue) ==
    IF store.kind = "json" THEN store.value
    ELSE IF store.kind = "absent" THEN defaultValue
    ELSE Null

\* loadFromLocalStorage(key, defaultValue), lines 23-33: the stored item parsed,
\* the default when there is no item, no storage, or the item does not parse
loadFromLocalStorage(store, defaultValue) ==
    IF store.kind = "json" THEN store.value ELSE defaultValue

\* saveToLocalStorage(key, value), lines 13-21: the store after the call; a
\* store that is absent or throws is left as it is
saveToLocalStorage(store, value) ==
    IF store.kind = "unavailable" THEN store ELSE [kind |-> "json", value |-> value]

MaxLenStored == 3

StoredChars == {97, SPACE, LF}

InitStored ==
    /\ inputText \in Texts(StoredChars, MaxLenStored)
    /\ storage \in { [kind |-> "json", value |-> o] : o \in PartialOptions }
    /\ cleaningOptions = loadFromLocalStorage(storage, defaultCleaningOptions)
    /\ cleanupResult = Null
    /\ recleaned = Null
    /\ lastProcessedText = << >>
    /\ clipboard = << >>
    /\ pc = "input"
    /\ InitPageState

NextStored == Clean

SpecStored == InitStored /\ [][NextStored]_vars

(***************************************************************************)
(* The user interface: the option panel, the text area and the effects     *)
(* that run after a state change.                                          *)
(***************************************************************************)
\* handleCopy(textToCopy), lines 316-326: the clipboards the call can leave.
\* An empty text returns early; writeText resolves, or rejects and is caught.
handleCopy(clip, textToCopy) ==
    IF textToCopy = << >> THEN {clip} ELSE {textToCopy, clip}

\* The effect of lines 300-314 for the given input and options: the new
\* cleanupResult and lastProcessedText, and the text handed to handleCopy
\* (empty when handleCopy is not called)
AutoConvert(text, options) ==
    IF Trim(text) # << >>
    THEN LET result == cleanText(text, options)
         IN  [ cleanupResult     |-> result,
               lastProcessedText |-> IF result.totalRemoved > 0
                                     THEN result.cleanedText
                                     ELSE lastProcessedText,
               copied            |-> IF result.totalRemoved > 0
                                     THEN result.cleanedText
                                     ELSE << >> ]
    ELSE [ cleanupResult     |-> Null,
           lastProcessedText |-> lastProcessedText,
           copied            |-> << >> ]

\* The auto-convert effect run on the given input and options
RunAutoConvert(text, options) ==
    \E e \in {AutoConvert(text, options)} :
        /\ cleanupResult' = e.cleanupResult
        /\ lastProcessedText' = e.lastProcessedText
        /\ clipboard' \in handleCopy(clipboard, e.copied)

\* setCleaningOptions(next) and the effects that depend on cleaningOptions:
\* the save of lines 222-224 and the auto-convert of lines 300-314
SetCleaningOptions(next) ==
    /\ pc = "ui"
    /\ cleaningOptions' = next
    /\ storage' = saveToLocalStorage(storage, next)
    /\ RunAutoConvert(inputText, next)
    /\ UNCHANGED << inputText, recleaned, pc, page >>

\* The effects of the first render: the save and the auto-convert
Mount ==
    /\ pc = "mount"
    /\ pc' = "ui"
    /\ storage' = saveToLocalStorage(storage, cleaningOptions)
    /\ RunAutoConvert(inputText, cleaningOptions)
    /\ UNCHANGED << inputText, cleaningOptions, recleaned, page >>

\* The reset button, line 526
ResetOptions == SetCleaningOptions(defaultCleaningOptions)

\* A text-case radio button, line 555
SetTextCase ==
    \E value \in TextCases :
        SetCleaningOptions([cleaningOptions EXCEPT !.textCase = value])

\* The removeExtraSpaces checkbox, lines 575-579; checked is the box's new state
SetRemoveExtraSpaces ==
    LET checked == ~cleaningOptions.removeExtraSpaces
    IN  SetCleaningOptions(
            [cleaningOptions EXCEPT
                !.removeExtraSpaces = checked,
                !.removeAllSpaces = IF checked THEN cleaningOptions.removeAllSpaces
                                    ELSE FALSE])

\* The removeAllSpaces checkbox, lines 589-593
SetRemoveAllSpaces ==
    LET checked == ~cleaningOptions.removeAllSpaces
    IN  SetCleaningOptions(
            [cleaningOptions EXCEPT
                !.removeAllSpaces = checked,
                !.removeExtraSpaces = IF checked THEN FALSE
                                      ELSE cleaningOptions.removeExtraSpaces])

\* Mutant of SetRemoveLineBreaks: the other flag kept when the box is ticked
\* and cleared when it is unticked
SetRemoveLineBreaks_KeepsOther ==
    LET checked == ~cleaningOptions.removeLineBreaks
    IN  SetCleaningOptions(
            [cleaningOptions EXCEPT
                !.removeLineBreaks = checked,
                !.normalizeLineBreaks = IF checked
                                        THEN cleaningOptions.normalizeLineBreaks
                                        ELSE FALSE])

\* The removeLineBreaks checkbox, lines 612-616
SetRemoveLineBreaks ==
    LET checked == ~cleaningOptions.removeLineBreaks
    IN  SetCleaningOptions(
            [cleaningOptions EXCEPT
                !.removeLineBreaks = checked,
                !.normalizeLineBreaks = IF checked THEN FALSE
                                        ELSE cleaningOptions.normalizeLineBreaks])

\* The normalizeLineBreaks checkbox, lines 626-630
SetNormalizeLineBreaks ==
    LET checked == ~cleaningOptions.normalizeLineBreaks
    IN  SetCleaningOptions(
            [cleaningOptions EXCEPT
                !.normalizeLineBreaks = checked,
                !.removeLineBreaks = IF checked THEN FALSE
                                     ELSE cleaningOptions.removeLineBreaks])

\* The removeNumbers checkbox, line 646
SetRemoveNumbers ==
    SetCleaningOptions(
        [cleaningOptions EXCEPT !.removeNumbers = ~cleaningOptions.removeNumbers])

\* The removePunctuation checkbox, line 656
SetRemovePunctuation ==
    SetCleaningOptions(
        [cleaningOptions EXCEPT
            !.removePunctuation = ~cleaningOptions.removePunctuation])

\* The removeSpecialChars checkbox, line 666
SetRemoveSpecialChars ==
    SetCleaningOptions(
        [cleaningOptions EXCEPT
            !.removeSpecialChars = ~cleaningOptions.removeSpecialChars])

\* The removeNonAscii checkbox, line 676
SetRemoveNonAscii ==
    SetCleaningOptions(
        [cleaningOptions EXCEPT !.removeNonAscii = ~cleaningOptions.removeNonAscii])

\* The texts typed into the text area
UITexts == { << >>, << 97 >>, << 8212 >> }

\* The textarea's onChange, line 414, and the auto-convert effect it triggers
SetInputText ==
    /\ pc = "ui"
    /\ \E text \in UITexts \ {inputText} :
         /\ inputText' = text
         /\ RunAutoConvert(text, cleaningOptions)
    /\ UNCHANGED << cleaningOptions, storage, recleaned, pc, page >>

\* The state after construction: the useState initializers of lines 6-10, 58-60
\* and 219, with a settings store that holds no item, is unavailable, or holds
\* an item that does not parse
InitUI ==
    /\ inputText = << >>
    /\ storage \in { [kind |-> "absent"], [kind |-> "unavailable"],
                     [kind |-> "unparsable"] }
    /\ cleaningOptions = loadFromLocalStorage(storage, defaultCleaningOptions)
    /\ cleanupResult = Null
    /\ recleaned = Null
    /\ lastProcessedText = << >>
    /\ clipboard = << >>
    /\ pc = "mount"
    /\ InitPageState

NextUI ==
    \/ Mount
    \/ ResetOptions
    \/ SetTextCase
    \/ SetRemoveExtraSpaces
    \/ SetRemoveAllSpaces
    \/ SetRemoveLineBreaks
    \/ SetNormalizeLineBreaks
    \/ SetRemoveNumbers
    \/ SetRemovePunctuation
    \/ SetRemoveSpecialChars
    \/ SetRemoveNonAscii
    \/ SetInputText

SpecUI == InitUI /\ [][NextUI]_vars

\* Texts with spaces, tabs and line feeds, under every option record that sets
\* removeExtraSpaces and not removeAllSpaces: the longest texts are over
\* letters, spaces and line feeds, the shorter ones have tabs as well
MaxLenFinal == 4

FinalChars == {97, SPACE, LF}

FinalOptions ==
    { o \in AllOptions : o.removeExtraSpaces /\ ~o.removeAllSpaces }

InitFinal ==
    InitRun(Texts(FinalChars, MaxLenFinal)
                \cup Texts(FinalChars \cup {TAB}, MaxLenFinal - 1),
            FinalOptions)

NextFinal == Clean

SpecFinal == InitFinal /\ [][NextFinal]_vars

\* Texts of letters, line feeds and carriage returns, under every option
\* record that sets removeLineBreaks
MaxLenBreaks == 3

BreaksChars == {97, LF, CR}

InitBreaks ==
    InitRun(Texts(BreaksChars, MaxLenBreaks),
            { o \in AllOptions : o.removeLineBreaks })

NextBreaks == Clean

SpecBreaks == InitBreaks /\ [][NextBreaks]_vars

\* Texts with catalog code points, under every option record, cleaned and
\* then cleaned once more
MaxLenTwice == 2

InitTwice == InitRun(Texts(EngineChars, MaxLenTwice), AllOptions)

NextTwice == Clean \/ CleanAgain

SpecTwice == InitTwice /\ [][NextTwice]_vars

(***************************************************************************)
(* The page with its clipboard traffic.  The user-interface specification  *)
(* above is the page in a browser without clipboard.readText, every        *)
(* writeText settled before the next event.  Here readText and writeText   *)
(* are calls in flight that settle in a later step, the window gets focus, *)
(* is resized, and other programs write the clipboard.                     *)
(***************************************************************************)
\* The most readText calls in flight; one more is rejected at once
MaxPendingReads == 1

\* The texts typed into the text area or read from an uploaded file
PageTexts == { << >>, << SPACE >>, << 8212 >> }

\* The texts other programs put on the clipboard
ExternalTexts == { << 8212 >> }

\* The option records the panel is taken through: the defaults, and the
\* defaults with the removePunctuation box (line 656) ticked
PageOptions ==
    { defaultCleaningOptions,
      [defaultCleaningOptions EXCEPT !.removePunctuation = TRUE] }

\* readClipboard(), lines 263-269, up to the await: the calls in flight after
\* a call made with the given isMobile, inputText and lastProcessedText in
\* its closure
StartRead(pending, mobile, text, last) ==
    LET call == [inputText |-> text, lastProcessedText |-> last]
    IN  IF mobile THEN pending
        ELSE IF Cardinality(pending \cup {call}) > MaxPendingReads THEN pending
        ELSE pending \cup {call}

\* handleCopy(textToCopy), lines 316-320, up to the await: the writes in
\* flight after the call; an empty text returns early
StartWrite(pending, textToCopy) ==
    IF textToCopy = << >> THEN pending ELSE pending \cup {textToCopy}

\* Mutant of AutoConvertEffect: cleanText keeps the option record of the
\* first render (a useCallback without cleaningOptions in its dependencies)
AutoConvertEffect_FirstOptions(text, options) ==
    IF Trim(text) # << >>
    THEN LET result == cleanText(text, defaultCleaningOptions)
         IN  [ cleanupResult     |-> result,
               lastProcessedText |-> IF result.totalRemoved > 0
                                     THEN result.cleanedText
                                     ELSE lastProcessedText,
               copied            |-> IF result.totalRemoved > 0
                                     THEN result.cleanedText
                                     ELSE << >> ]
    ELSE [ cleanupResult     |-> Null,
           lastProcessedText |-> lastProcessedText,
           copied            |-> << >> ]

\* The effect of lines 300-314, run because inputText or cleanText (that is,
\* cleaningOptions, line 216) is not the one of the render before
AutoConvertEffect(text, options) == AutoConvert(text, options)

\* The effects of lines 282-298 and 300-314 after a render, in the order of
\* the source.  readChanged: readClipboard is a new function (inputText,
\* lastProcessedText or isMobile changed, line 279), so the effect of line
\* 282 calls it.  convertChanged: inputText or cleanText changed, so the
\* auto-convert runs.  When the auto-convert sets a new lastProcessedText the
\* next render has a new readClipboard again, and line 284 calls that one.
Effects(text, options, mobile, pending, readChanged, convertChanged) ==
    LET reads1 == IF readChanged
                  THEN StartRead(pending, mobile, text, lastProcessedText)
                  ELSE pending
        conv   == IF convertChanged
                  THEN AutoConvertEffect(text, options)
                  ELSE [ cleanupResult     |-> cleanupResult,
                         lastProcessedText |-> lastProcessedText,
                         copied            |-> << >> ]
        lastChanged == conv.lastProcessedText # lastProcessedText
    IN  [ cleanupResult     |-> conv.cleanupResult,
          lastProcessedText |-> conv.lastProcessedText,
          reads             |-> IF lastChanged
                                THEN StartRead(reads1, mobile, text,
                                               conv.lastProcessedText)
                                ELSE reads1,
          writes            |-> StartWrite(writes, conv.copied),
          autoRead          |-> ~mobile /\ (readChanged \/ lastChanged) ]

\* The failure of saveToLocalStorage (lines 13-21) into the given store: the
\* catch of line 18 when setItem throws or localStorage is not there
SaveFailure(store) == IF store.kind = "unavailable" THEN "save" ELSE "none"

\* The state the effects leave
Commit(e) ==
    /\ cleanupResult' = e.cleanupResult
    /\ lastProcessedText' = e.lastProcessedText
    /\ reads' = e.reads
    /\ writes' = e.writes
    /\ autoRead' = e.autoRead

\* The first render and its effects, in the order of the source: the save
\* (222), the detector (227-240), readClipboard() with the isMobile of the
\* first render (282-298), the auto-convert (300-314); then the render that
\* setIsMobile of line 234 asked for, whose readClipboard returns at line 265
\* when isMobile is true
PageLoad ==
    /\ pc = "load"
    /\ pc' = "page"
    /\ storage' = saveToLocalStorage(storage, cleaningOptions)
    /\ isMobile' = mobileDevice
    /\ \E e \in { Effects(inputText, cleaningOptions, isMobile, reads, TRUE, TRUE) } :
         /\ cleanupResult' = e.cleanupResult
         /\ lastProcessedText' = e.lastProcessedText
         /\ writes' = e.writes
         /\ reads' = IF mobileDevice # isMobile
                     THEN StartRead(e.reads, mobileDevice, inputText,
                                    e.lastProcessedText)
                     ELSE e.reads
         /\ autoRead' = (e.autoRead \/ (mobileDevice # isMobile /\ ~mobileDevice))
    /\ failure' = SaveFailure(storage)
    /\ UNCHANGED << inputText, cleaningOptions, clipboard, recleaned,
                    mobileDevice, fromApp >>

\* handleResize, line 237, for a resize that changes what checkMobile()
\* returns; isMobile changes, so readClipboard is new and line 284 calls it
handleResize ==
    /\ pc = "page"
    /\ mobileDevice' = ~mobileDevice
    /\ isMobile' = mobileDevice'
    /\ \E e \in { Effects(inputText, cleaningOptions, mobileDevice', reads,
                          isMobile' # isMobile, FALSE) } : Commit(e)
    /\ failure' = "none"
    /\ UNCHANGED << inputText, cleaningOptions, clipboard, storage, recleaned,
                    pc, fromApp >>

\* handleWindowFocus, lines 287-289
handleWindowFocus ==
    /\ pc = "page"
    /\ reads' = StartRead(reads, isMobile, inputText, lastProcessedText)
    /\ autoRead' = ~isMobile
    /\ failure' = "none"
    /\ UNCHANGED << inputText, cleaningOptions, cleanupResult, lastProcessedText,
                    clipboard, storage, recleaned, pc, isMobile, mobileDevice,
                    writes, fromApp >>

\* The test of line 271, with the inputText and lastProcessedText of the
\* closure of the call
ShouldLoad(text, call) ==
    /\ Trim(text) # << >>
    /\ text # call.inputText
    /\ text # call.lastProcessedText

\* readText() of line 269 resolves: lines 270-273 with the clipboard's text,
\* and the effects of the render when setInputText changes inputText
ReadResolves ==
    /\ pc = "page"
    /\ \E call \in reads :
         IF ShouldLoad(clipboard, call) /\ clipboard # inputText
         THEN /\ inputText' = clipboard
              /\ \E e \in { Effects(clipboard, cleaningOptions, isMobile,
                                    reads \ {call}, TRUE, TRUE) } : Commit(e)
         ELSE /\ reads' = reads \ {call}
              /\ autoRead' = FALSE
              /\ UNCHANGED << inputText, cleanupResult, lastProcessedText, writes >>
    /\ failure' = "none"
    /\ UNCHANGED << cleaningOptions, clipboard, storage, recleaned, pc,
                    isMobile, mobileDevice, fromApp >>

\* readText() of line 269 rejects (permission denied, document not focused):
\* the catch of lines 275-277 logs it
ReadRejects ==
    /\ pc = "page"
    /\ \E call \in reads : reads' = reads \ {call}
    /\ autoRead' = FALSE
    /\ failure' = "read"
    /\ UNCHANGED << inputText, cleaningOptions, cleanupResult, lastProcessedText,
                    clipboard, storage, recleaned, pc, isMobile, mobileDevice,
                    writes, fromApp >>

\* writeText() of line 320 resolves: the clipboard holds the text
WriteResolves ==
    /\ pc = "page"
    /\ \E text \in writes :
         /\ clipboard' = text
         /\ writes' = writes \ {text}
    /\ fromApp' = TRUE
    /\ autoRead' = FALSE
    /\ failure' = "none"
    /\ UNCHANGED << inputText, cleaningOptions, cleanupResult, lastProcessedText,
                    storage, recleaned, pc, isMobile, mobileDevice, reads >>

\* writeText() of line 320 rejects or navigator.clipboard is undefined: the
\* catch of lines 323-325 logs it
WriteRejects ==
    /\ pc = "page"
    /\ \E text \in writes : writes' = writes \ {text}
    /\ autoRead' = FALSE
    /\ failure' = "write"
    /\ UNCHANGED << inputText, cleaningOptions, cleanupResult, lastProcessedText,
                    clipboard, storage, recleaned, pc, isMobile, mobileDevice,
                    reads, fromApp >>

\* setInputText(text) with a text that is not the current one, and the
\* effects of the render
ChangeInputText(text) ==
    /\ pc = "page"
    /\ text # inputText
    /\ inputText' = text
    /\ \E e \in { Effects(text, cleaningOptions, isMobile, reads, TRUE, TRUE) } :
         Commit(e)
    /\ failure' = "none"
    /\ UNCHANGED << cleaningOptions, clipboard, storage, recleaned, pc,
                    isMobile, mobileDevice, fromApp >>

\* The textarea's onChange, line 414
EditText == \E text \in PageTexts : ChangeInputText(text)

\* handleFileUpload, lines 342-352: the file's text becomes inputText
handleFileUpload == \E text \in PageTexts \cup ExternalTexts : ChangeInputText(text)

\* handlePasteFromClipboard, lines 243-260, behind the Paste button that is
\* rendered when isMobile (lines 388-397): readText resolves with a text that
\* has a non-whitespace character and is not the current inputText
handlePasteFromClipboard ==
    /\ isMobile
    /\ Trim(clipboard) # << >>
    /\ ChangeInputText(clipboard)

\* handlePasteFromClipboard when readText rejects or is absent: the catch of
\* lines 251-258 logs it and gives the focus to the text area
PasteRejects ==
    /\ pc = "page"
    /\ isMobile
    /\ autoRead' = FALSE
    /\ failure' = "paste"
    /\ UNCHANGED << inputText, cleaningOptions, cleanupResult, lastProcessedText,
                    clipboard, storage, recleaned, pc, isMobile, mobileDevice,
                    reads, writes, fromApp >>

\* setCleaningOptions(next) from the option panel, with the save of lines
\* 222-224 and the effects of the render (cleanText is new, line 216)
ChangeOptions ==
    /\ pc = "page"
    /\ \E next \in PageOptions \ {cleaningOptions} :
         /\ cleaningOptions' = next
         /\ storage' = saveToLocalStorage(storage, next)
         /\ \E e \in { Effects(inputText, next, isMobile, reads, FALSE, TRUE) } :
              Commit(e)
    /\ failure' = SaveFailure(storage)
    /\ UNCHANGED << inputText, clipboard, recleaned, pc, isMobile, mobileDevice,
                    fromApp >>

\* Another program writes the clipboard
ExternalCopy ==
    /\ \E text \in ExternalTexts :
         /\ text # clipboard \/ fromApp
         /\ clipboard' = text
    /\ fromApp' = FALSE
    /\ autoRead' = FALSE
    /\ failure' = "none"
    /\ UNCHANGED << inputText, cleaningOptions, cleanupResult, lastProcessedText,
                    storage, recleaned, pc, isMobile, mobileDevice, reads, writes >>

\* The state after construction (lines 6-10, 58-60, 219), on a device of
\* either class, with a settings store that holds no item, is unavailable or
\* holds an item that does not parse
InitPage ==
    /\ inputText = << >>
    /\ storage \in { [kind |-> "absent"], [kind |-> "unavailable"],
                     [kind |-> "unparsable"] }
    /\ cleaningOptions = loadFromLocalStorage(storage, defaultCleaningOptions)
    /\ cleanupResult = Null
    /\ recleaned = Null
    /\ lastProcessedText = << >>
    /\ clipboard = << >>
    /\ pc = "load"
    /\ isMobile = FALSE
    /\ mobileDevice \in BOOLEAN
    /\ reads = {}
    /\ writes = {}
    /\ fromApp = FALSE
    /\ autoRead = FALSE
    /\ failure = IF storage.kind \in {"unavailable", "unparsable"}
                 THEN "load" ELSE "none"

NextPage ==
    \/ PageLoad
    \/ handleResize
    \/ handleWindowFocus
    \/ ReadResolves
    \/ ReadRejects
    \/ WriteResolves
    \/ WriteRejects
    \/ EditText
    \/ handleFileUpload
    \/ handlePasteFromClipboard
    \/ PasteRejects
    \/ ChangeOptions
    \/ ExternalCopy

SpecPage == InitPage /\ [][NextPage]_vars

(***************************************************************************)
(* Properties.                                                             *)
(***************************************************************************)
\* The number of line-break tokens (LF, or CR followed by LF) s starts with
RECURSIVE LeadingLineBreaks(_)
LeadingLineBreaks(s) ==
    IF s # << >> /\ Head(s) = 10 THEN 1 + LeadingLineBreaks(Tail(s))
    ELSE IF Len(s) >= 2 /\ s[1] = 13 /\ s[2] = 10
         THEN 1 + LeadingLineBreaks(SubSeq(s, 3, Len(s)))
    ELSE 0

HasThreeLineBreaks(s) ==
    \E i \in 1..Len(s) : LeadingLineBreaks(SubSeq(s, i, Len(s))) >= 3

\* C1: cleaning the cleanedText of a first call again, with the same options,
\* returns the same cleanedText.
C1_Idempotent ==
    pc = "recleaned" => recleaned.cleanedText = cleanupResult.cleanedText

\* The horizontal white space of the claims: space, tab, form feed, vertical tab
Horizontal == {32, 9, 12, 11}

\* t with every run of horizontal white space replaced by one space: the
\* first character of a run is kept as a space, the others are dropped
CollapsedRuns(t) ==
    LET first == SelectSeq([i \in 1..Len(t) |-> i],
                           LAMBDA i : t[i] \notin Horizontal
                                        \/ i = 1 \/ t[i - 1] \notin Horizontal)
    IN  [ k \in 1..Len(first) |->
            IF t[first[k]] \in Horizontal THEN 32 ELSE t[first[k]] ]

\* t without its leading and trailing characters of the set ws
StrippedOf(t, ws) ==
    LET inner == { i \in 1..Len(t) : t[i] \notin ws }
    IN  IF inner = {} THEN << >>
        ELSE SubSeq(t, CHOOSE i \in inner : \A j \in inner : i <= j,
                       CHOOSE i \in inner : \A j \in inner : i >= j)

Occurrences(t, c) == Cardinality({ i \in 1..Len(t) : t[i] = c })

\* C2 as stated: without catalog code points and with the default options,
\* nothing is reported and cleanedText is the text with runs of horizontal
\* white space collapsed and horizontal white space trimmed; no line break
\* of the input is lost.
C2_OnlyHorizontalTrim ==
    pc = "cleaned" =>
        /\ cleanupResult.removedChars = << >>
        /\ cleanupResult.totalRemoved = 0
        /\ cleanupResult.cleanedText
               = StrippedOf(CollapsedRuns(inputText), Horizontal)
        /\ Occurrences(cleanupResult.cleanedText, 10) = Occurrences(inputText, 10)

\* C2 amended: without catalog code points and with the default options,
\* nothing is reported and cleanedText is the text with runs of horizontal
\* white space collapsed and then every kind of leading and trailing white
\* space, line breaks included, trimmed; the line breaks between the first
\* and the last non-white-space character are all kept.
C2_CollapseThenTrimAll ==
    pc = "cleaned" =>
        /\ cleanupResult.removedChars = << >>
        /\ cleanupResult.totalRemoved = 0
        /\ cleanupResult.cleanedText
               = StrippedOf(CollapsedRuns(inputText), JsWhiteSpace)
        /\ Occurrences(cleanupResult.cleanedText, 10)
               = Occurrences(StrippedOf(inputText, JsWhiteSpace), 10)

C2_Witness ==
    /\ pc = "cleaned"
    /\ inputText = << 10, 97, 10, 97 >>
    /\ cleanupResult.cleanedText = << 97, 10, 97 >>

\* The records the report must hold for t: one per catalog entry that
\* occurs in t, in catalog order, with the number of its occurrences
ExpectedMatches(t) ==
    SelectSeq([ k \in 1..Len(problematicChars) |->
                  [ char  |-> problematicChars[k],
                    count |-> Occurrences(t, problematicChars[k]) ] ],
              LAMBDA item : item.count > 0)

\* C3: under every option record, the report holds exactly one record per
\* catalog entry occurring in the original text, in catalog order, with its
\* number of occurrences, and totalRemoved is their sum; one catalog code
\* point occurring once gives one record with count 1 and totalRemoved 1.
C3_ReportCountsOriginal ==
    pc = "cleaned" =>
        LET inCatalog == { i \in 1..Len(inputText) : inputText[i] \in CatalogChars }
        IN  /\ cleanupResult.removedChars = ExpectedMatches(inputText)
            /\ cleanupResult.totalRemoved = Cardinality(inCatalog)
            /\ \A k \in 1..Len(cleanupResult.removedChars) :
                   cleanupResult.removedChars[k].count > 0
            /\ Cardinality(inCatalog) = 1 =>
                   /\ Len(cleanupResult.removedChars) = 1
                   /\ cleanupResult.removedChars[1].count = 1
                   /\ cleanupResult.totalRemoved = 1

C3_Witness ==
    /\ pc = "cleaned"
    /\ inputText = << 160, 160 >>
    /\ cleaningOptions.removeNonAscii /\ cleaningOptions.removeAllSpaces
    /\ cleaningOptions.textCase = "uppercase"
    /\ cleanupResult.cleanedText = << >>
    /\ cleanupResult.totalRemoved = 2

\* C4: with removeAllSpaces set, the result (cleanedText, matches and
\* totalRemoved) is the same whether removeExtraSpaces is set or not.
C4_RemoveAllSpacesWins ==
    (pc = "cleaned" /\ cleaningOptions.removeAllSpaces) =>
        cleanupResult
            = cleanText(inputText,
                        [cleaningOptions EXCEPT
                            !.removeExtraSpaces = ~cleaningOptions.removeExtraSpaces])

C4_Witness ==
    /\ pc = "cleaned"
    /\ cleaningOptions.removeAllSpaces /\ cleaningOptions.removeExtraSpaces
    /\ inputText = << 97, 32, 97 >>
    /\ cleanupResult.cleanedText = << 97, 97 >>

\* The replacement policy of the claim, per code point
PolicyOf(c) ==
    IF c \in {8212, 8211} THEN << 45 >>
    ELSE IF c \in {8216, 8217, 8242, 8245} THEN << 39 >>
    ELSE IF c \in {8220, 8221, 171, 187, 8222, 8243, 8246} THEN << 34 >>
    ELSE IF c = 8230 THEN << 46, 46, 46 >>
    ELSE IF c \in {8239, 160, 8195, 8194, 8201, 8202} THEN << 32 >>
    ELSE IF c \in {8203, 8204, 8205, 65279, 8288, 6158, 8232, 8233, 1564, 8206,
                   8207, 8234, 8235, 8236, 8237, 8238, 8294, 8295, 8296, 8297}
         THEN << >>
    ELSE << c >>

RECURSIVE Substituted(_)
Substituted(t) ==
    IF t = << >> THEN << >> ELSE PolicyOf(Head(t)) \o Substituted(Tail(t))

\* C5: with every option toggle off, cleanedText is the input with each
\* catalog code point replaced according to its policy (hyphen, single
\* quote, double quote, three periods, one space, or nothing) and every
\* other character unchanged and in place.
C5_SubstitutionPolicy ==
    pc = "cleaned" => cleanupResult.cleanedText = Substituted(inputText)

C5_Witness ==
    /\ pc = "cleaned"
    /\ inputText = << 8230, 8230 >>
    /\ cleanupResult.cleanedText = << 46, 46, 46, 46, 46, 46 >>

\* C6: with normalizeLineBreaks set and removeLineBreaks and removeAllSpaces
\* unset, cleanedText never holds three or more consecutive line breaks, a
\* line break being a line feed or a carriage return followed by one.
C6_NoThreeLineBreaks ==
    (/\ pc = "cleaned"
     /\ cleaningOptions.normalizeLineBreaks
     /\ ~cleaningOptions.removeLineBreaks
     /\ ~cleaningOptions.removeAllSpaces)
        => ~HasThreeLineBreaks(cleanupResult.cleanedText)

\* A letter of the Latin or the Cyrillic script
IsLetter(c) == c \in (65..90) \cup (97..122) \cup (1024..1119)

\* Position i of t holds the first letter of t, or the letter that follows a
\* period and one or more white-space characters
StartsSentence(t, i) ==
    /\ IsLetter(t[i])
    /\ \/ \A j \in 1..(i - 1) : ~IsLetter(t[j])
       \/ \E j \in 1..(i - 2) :
              /\ t[j] = 46
              /\ \A k \in (j + 1)..(i - 1) : t[k] \in JsWhiteSpace

SentenceCased(t) ==
    [ i \in 1..Len(t) |->
        IF StartsSentence(t, i) THEN UpperChar(LowerChar(t[i])) ELSE LowerChar(t[i]) ]

\* C7: with textCase = sentence the text is lowercased and the first letter
\* of the string and the first letter after every period-plus-white-space
\* are uppercased, Latin or Cyrillic, whatever the string starts with; with
\* the other options at their defaults "a.  b" gives "A.  B".
C7_SentenceCase ==
    pc = "cleaned" =>
        /\ cleaningOptions = [AllOff EXCEPT !.textCase = "sentence"] =>
               cleanupResult.cleanedText = SentenceCased(inputText)
        /\ (/\ cleaningOptions = [defaultCleaningOptions EXCEPT !.textCase = "sentence"]
            /\ inputText = << 97, 46, 32, 32, 98 >>) =>
               cleanupResult.cleanedText = << 65, 46, 32, 32, 66 >>

\* The option record with each omitted field set to its default
WithDefaults(options) ==
    [ f \in OptionFields |->
        IF f \in DOMAIN options THEN options[f] ELSE defaultCleaningOptions[f] ]

\* C8: a record that omits fields gives the same result as the record with
\* each omitted field set to its default.
C8_OmittedFieldsDefault ==
    pc = "cleaned" =>
        cleanupResult = cleanText(inputText, WithDefaults(cleaningOptions))

\* C9: removeExtraSpaces and removeAllSpaces are never both true in
\* cleaningOptions.
C9_SpaceOptionsExclusive ==
    ~(cleaningOptions.removeExtraSpaces /\ cleaningOptions.removeAllSpaces)

\* C10: removeLineBreaks and normalizeLineBreaks are never both true in
\* cleaningOptions.
C10_LineBreakOptionsExclusive ==
    ~(cleaningOptions.removeLineBreaks /\ cleaningOptions.normalizeLineBreaks)

\* normalizeLineBreaks was ticked after removeLineBreaks had been ticked: the
\* store holds the record saved after the second tick
C10_Witness ==
    /\ pc = "ui"
    /\ cleaningOptions.normalizeLineBreaks
    /\ ~cleaningOptions.removeLineBreaks
    /\ cleaningOptions.removeAllSpaces
    /\ storage = [kind |-> "json", value |-> cleaningOptions]

\* TRUE iff some code unit of s is in the set chars
Contains(s, chars) == \E i \in 1..Len(s) : s[i] \in chars

\* TRUE iff two adjacent code units of s are both horizontal whitespace
AdjacentHorizontal(s) ==
    \E i \in 1..(Len(s) - 1) : s[i] \in HorizontalSpace /\ s[i + 1] \in HorizontalSpace

\* C14: whenever removeExtraSpaces is set and removeAllSpaces is not, for
\* every text and every value of the other options, cleanedText has no two
\* adjacent horizontal-whitespace characters, no tab, form feed or vertical
\* tab, and neither starts nor ends with a horizontal-whitespace character.
C14_FinalPassGuarantee ==
    (/\ pc = "cleaned"
     /\ cleaningOptions.removeExtraSpaces
     /\ ~cleaningOptions.removeAllSpaces)
    => LET s == cleanupResult.cleanedText
       IN  /\ ~AdjacentHorizontal(s)
           /\ ~Contains(s, {TAB, FF, VT})
           /\ s # << >> => (s[1] \notin HorizontalSpace /\ s[Len(s)] \notin HorizontalSpace)

\* The line-break removal puts a space next to a space that the first
\* collapse had left alone, and the final pass collapses the two
C14_Witness ==
    /\ pc = "cleaned"
    /\ cleaningOptions.removeExtraSpaces
    /\ ~cleaningOptions.removeAllSpaces
    /\ cleaningOptions.removeLineBreaks
    /\ inputText = << 97, SPACE, LF, 97 >>
    /\ cleanupResult.cleanedText = << 97, SPACE, 97 >>

\* C15: with removeLineBreaks set, for every text and every value of the
\* other options (normalizeLineBreaks set as well), cleanedText contains no
\* line feed, and the result is the result with normalizeLineBreaks unset.
C15_RemoveLineBreaksWins ==
    (pc = "cleaned" /\ cleaningOptions.removeLineBreaks)
    => /\ ~Contains(cleanupResult.cleanedText, {LF})
       /\ cleanupResult =
            cleanText(inputText,
                      [cleaningOptions EXCEPT !.normalizeLineBreaks = FALSE])

\* Both line-break options set, a text with a run of two line feeds: each
\* of them became a space
C15_Witness ==
    /\ pc = "cleaned"
    /\ cleaningOptions.removeLineBreaks
    /\ cleaningOptions.normalizeLineBreaks
    /\ ~cleaningOptions.removeExtraSpaces
    /\ ~cleaningOptions.removeAllSpaces
    /\ inputText = << 97, LF, LF >>
    /\ cleanupResult.cleanedText = << 97, SPACE, SPACE >>

\* The catalog's code points
CatalogCodePoints == { problematicChars[k] : k \in 1..Len(problematicChars) }

\* C16: for every text and every option record, cleanedText contains none of
\* the catalog code points, so cleaning a cleanedText reports no removed
\* characters and totalRemoved 0.
C16_NoCatalogSurvives ==
    /\ pc \in {"cleaned", "recleaned"}
         => ~Contains(cleanupResult.cleanedText, CatalogCodePoints)
    /\ pc = "recleaned"
         => (recleaned.removedChars = << >> /\ recleaned.totalRemoved = 0)

\* A text of two equal catalog code points, cleaned twice
C16_Witness ==
    /\ pc = "recleaned"
    /\ inputText = << 8212, 8212 >>
    /\ cleanupResult.totalRemoved = 2
    /\ cleanupResult.cleanedText = << 45, 45 >>
    /\ recleaned.totalRemoved = 0

\* C11: on a device the detector classifies as mobile the clipboard is never
\* read automatically, neither on page load nor on a window focus event, in
\* any order of the mount effects, detector updates and focus events: no
\* step calls readText in readClipboard while the device is of mobile class.
C11_NoAutomaticReadOnMobile == mobileDevice => ~autoRead

\* The result the page shows for the given input and options once the
\* effects have run
SettledResult(text, options) ==
    IF Trim(text) # << >> THEN cleanText(text, options) ELSE Null

\* C12: when a clipboard read, a clipboard write, a settings save or a
\* settings load fails, the handler catches it: the step of the failure
\* leaves inputText, cleanupResult and cleaningOptions as they are (a failed
\* save leaves the option record the panel has just set, and the store), at
\* start-up cleaningOptions is the default record, and the page goes on
\* showing the result of cleanText for inputText.
C12_FailuresDegradeSilently ==
    /\ [](failure = "load" => cleaningOptions = defaultCleaningOptions)
    /\ []((failure # "none" /\ pc = "page")
            => /\ cleaningOptions \in AllOptions
               /\ cleanupResult = SettledResult(inputText, cleaningOptions))
    /\ [][failure' \in {"read", "write", "paste"}
            => UNCHANGED << inputText, cleanupResult, cleaningOptions,
                            lastProcessedText, clipboard, storage >>]_vars
    /\ [][failure' = "save"
            => /\ storage' = storage
               /\ inputText' = inputText
               /\ cleaningOptions' \in PageOptions]_vars

\* The store was unavailable at start-up and stays so after the panel has
\* changed the options; a clipboard write has just failed; the result of the
\* input is shown
C12_Witness ==
    /\ pc = "page"
    /\ failure = "write"
    /\ storage = [kind |-> "unavailable"]
    /\ cleaningOptions = defaultCleaningOptions
    /\ inputText = << 8212 >>
    /\ clipboard = << >>
    /\ cleanupResult # Null
    /\ cleanupResult.cleanedText = << 45 >>

\* C13: once the effects have settled after any sequence of input edits,
\* file uploads, pastes, clipboard reads, option changes and resets,
\* cleanupResult is cleanText(inputText, cleaningOptions) when inputText has
\* a non-whitespace character and null otherwise.
C13_ResultIsCurrent ==
    pc = "page" => cleanupResult = SettledResult(inputText, cleaningOptions)

\* A text loaded by a clipboard read, cleaned, and cleaned again after the
\* removePunctuation box was ticked
C13_Witness ==
    /\ pc = "page"
    /\ ~isMobile
    /\ inputText = << 8212 >>
    /\ clipboard = << 8212 >>
    /\ cleaningOptions.removePunctuation
    /\ cleanupResult # Null
    /\ cleanupResult.cleanedText = << >>
    /\ cleanupResult.totalRemoved = 1

\* C17: on a desktop-class device a text that the page itself auto-copied to
\* the clipboard is never loaded back into inputText by a later automatic
\* clipboard read, also when a write fails or completes late: no resolving
\* readText of readClipboard sets inputText to a clipboard text handleCopy
\* wrote.
C17_NoClipboardFeedback ==
    [][(ReadResolves /\ ~mobileDevice /\ inputText' # inputText) => ~fromApp]_vars

====
